---- MODULE Spec2Model ----
(***************************************************************************)
(* Model of ttbd/ttbl/capture.py: the capture interface of a target (the   *)
(* registry of capturers), the generic stream and snapshot capturers and   *)
(* the child process a stream capturer supervises.                         *)
(*                                                                         *)
(* One target is modelled.  Every request handler (put_start,              *)
(* put_stop_and_get, get_list, _release_hook) is one atomic action: the    *)
(* handlers run under the target's lock.                                   *)
(***************************************************************************)
EXTENDS Integers, Sequences, FiniteSets, TLC

\* ---------------------------------------------------------------- bounds
MaxPid == 2          \* process ids handed out by the system: 1..MaxPid
MaxTime == 1         \* time stamps (second precision): 0..MaxTime

\* ------------------------------------------------------------- constants
None == "None"       \* python's None, for string valued things
NoPid == 0           \* no pid file
NoFile == <<>>       \* python's None, where a file name is expected
EmptyDict == [k \in {} |-> NoFile]
RetNone == [None |-> NoFile]     \* a call that returns None, no dictionary

Users == {"alice", "bob"}      \* the clients that send requests
Owners == {"alice"}            \* the clients that get to own the target
Times == 0 .. MaxTime
Pids == 1 .. MaxPid

\* The declaration the interface is constructed with (the example in the
\* class documentation, reduced): a snapshot capturer, a stream capturer
\* and a synonym of the stream capturer
\*
\*   ttbl.capture.interface(vnc0 = I_vnc, hdmi0 = I_ffmpeg,
\*                          screen_stream = "hdmi0")
Instances == {"I_vnc", "I_ffmpeg"}
DeclOrder == <<"vnc0", "hdmi0", "screen_stream">>
Declared == ("vnc0" :> "I_vnc") @@ ("hdmi0" :> "I_ffmpeg")
            @@ ("screen_stream" :> "hdmi0")

\* impl_c.stream, as set by generic_snapshot.__init__ (False) and
\* generic_stream.__init__ (True)
stream == ("I_vnc" :> FALSE) @@ ("I_ffmpeg" :> TRUE)

\* what is neither an instance nor a string
OtherValues == {"<int>"}

\* isinstance(impl, impl_c) and isinstance(impl, str)
is_impl_c(impl) == impl \in Instances
is_str(impl) == impl \notin Instances /\ impl \notin OtherValues

RECURSIVE interface_init(_, _, _, _)
\* interface.__init__(**impls), given as the order of the keywords and
\* the dictionary: walks the declaration in order; an instance is
\* registered as is; a string is a synonym, it has to be a name of the
\* declaration and is replaced by what the declaration holds under that
\* name; anything else is an error
interface_init(order, declared, i, acc) ==
    IF ~acc.ok \/ i > Len(order) THEN acc
    ELSE LET capturer == order[i]
             impl == declared[capturer]
         IN  IF is_impl_c(impl)
             THEN interface_init(order, declared, i + 1,
                      [acc EXCEPT !.impls = @ @@ (capturer :> impl)])
             ELSE IF is_str(impl)
             THEN IF impl \notin DOMAIN declared
                  THEN [acc EXCEPT !.ok = FALSE]
                  ELSE interface_init(order, declared, i + 1,
                      [acc EXCEPT !.impls = @ @@ (capturer :> declared[impl])])
             ELSE [acc EXCEPT !.ok = FALSE]

\* self.impls = {} before the loop
NoImpls == [ok |-> TRUE, impls |-> EmptyDict]

impls == interface_init(DeclOrder, Declared, 1, NoImpls).impls
Names == DOMAIN impls
StreamNames == { n \in Names : stream[impls[n]] }
SnapshotNames == Names \ StreamNames


\* -------------------------------------------------------- configuration
\* A MIME type is a string of characters; "w" stands for one character of
\* [_a-zA-Z0-9], "NL" for a newline and " " for any other character
Chars == {"w", "/", ",", " ", "NL"}
MaxLen == 7          \* the longest MIME type that is tried

\* the positions after a match of [_a-zA-Z0-9]+ that starts at i
word_plus(s, i) ==
    { j \in i + 1 .. Len(s) + 1 : \A k \in i .. j - 1 : s[k] = "w" }

\* the positions after a match of [_a-zA-Z0-9]+/[_a-zA-Z0-9]+ at i
token(s, i) ==
    UNION { word_plus(s, j + 1) :
              j \in { k \in word_plus(s, i) : k <= Len(s) /\ s[k] = "/" } }

RECURSIVE token_star(_, _, _)
\* the positions after a match of (,[_a-zA-Z0-9]+/[_a-zA-Z0-9]+)* that
\* starts at one of the positions ps
token_star(s, ps, seen) ==
    LET more == UNION { token(s, i + 1) :
                          i \in { k \in ps : k <= Len(s) /\ s[k] = "," } }
    IN  IF more \subseteq seen \cup ps THEN seen \cup ps
        ELSE token_star(s, more \ (seen \cup ps), seen \cup ps)

\* "$" without re.MULTILINE: at the end of the string and just before a
\* newline that ends the string
dollar(s, i) == i = Len(s) + 1 \/ (i = Len(s) /\ s[i] = "NL")

\* mime_type_regex.search(mimetype): "^" lets the match start at the
\* first character only
mime_type_regex_search(s) ==
    \E i \in token_star(s, token(s, 1), {}) : dollar(s, i)

\* the assertion of impl_c.__init__(stream, mimetype)
impl_c_init(mimetype_arg) ==
    IF mime_type_regex_search(mimetype_arg) THEN "ok" ELSE "AssertionError"

\* What a name of a declaration can be bound to: an instance, the name of
\* a capturer (declared or not) or something else
DeclNames == {"vnc0", "hdmi0", "screen_stream"}
DeclValues == Instances \cup DeclNames \cup {"nosuch"} \cup OtherValues

\* the declarations: the keywords in their order, and what they are
\* bound to
Orders == { o \in UNION { [1 .. n -> DeclNames] : n \in 1 .. Cardinality(DeclNames) } :
              \A i, j \in 1 .. Len(o) : o[i] = o[j] => i = j }
Declarations ==
    UNION { { [order |-> o, declared |-> d] :
                d \in [{ o[i] : i \in 1 .. Len(o) } -> DeclValues] } :
            o \in Orders }

\* interface._target_setup: the type of every capturer is published
target_setup(im) ==
    IF \E capturer \in DOMAIN im : ~is_impl_c(im[capturer])
    THEN [exc |-> "AttributeError", fsdb |-> EmptyDict]
    ELSE [exc |-> "none",
          fsdb |-> [capturer \in DOMAIN im |->
                      IF stream[im[capturer]] THEN "stream" ELSE "snapshot"]]

\* interface.get_list on a registry im with the started flags st
registry_get_list(im, st) ==
    IF \E name \in DOMAIN im : ~is_impl_c(im[name])
    THEN [exc |-> "AttributeError", ret |-> EmptyDict]
    ELSE [exc |-> "none",
          ret |-> [name \in DOMAIN im |->
                     IF stream[im[name]]
                     THEN IF st[name] = "True" THEN "True" ELSE "False"
                     ELSE None]]

\* "impl.stream" as put_start, put_stop_and_get and _release_hook
\* evaluate it for the entry of a name
registry_impl_stream(im, name) ==
    IF is_impl_c(im[name]) THEN "none" ELSE "AttributeError"

\* ----------------------------------------------------------------- state
VARIABLES
    started,     \* property capturer-NAME-started: "True" or None
    output,      \* property capturer-NAME-output: a file name or NoFile
    pidfile,     \* STATEDIR/capturer-NAME.pid: a pid or NoPid
    alive,       \* the child processes that are running
    launched,    \* pid -> the capturer name it was launched for
    nextPid,     \* the pid the next child process gets
    user_path,   \* impl_c.user_path of every instance
    owner,       \* who owns the target, or None
    now,         \* the clock, in seconds
    last,        \* the last request: what was asked and what came back
    mimetype,    \* the MIME type an instance is constructed with
    made,        \* how impl_c.__init__ ended: "none" before it ran
    decl,        \* the declaration the interface is constructed with
    registry,    \* the interface: how __init__ and _target_setup ended,
                 \* and interface.impls
    thr,         \* the request every daemon thread serves and where it is
    tgt          \* per target: its lock and its properties

vars == <<started, output, pidfile, alive, launched, nextPid, user_path,
          owner, now, last, mimetype, made, decl, registry, thr, tgt>>

\* the configuration, which does not change once the daemon serves
config == <<mimetype, made, decl, registry>>

\* what the threads of the daemon share
conc == <<thr, tgt>>

\* the capture state of the one target the requests are about
serving == <<started, output, pidfile, alive, launched, nextPid, owner, now>>

\* an interface that has not been constructed
NotConstructed == [status |-> "none", setup |-> "none", impls |-> EmptyDict,
                   fsdb |-> EmptyDict]

\* the instances are constructed with a good MIME type
ConfiguredImpl ==
    /\ mimetype = <<"w", "/", "w">>
    /\ made = "ok"

\* the interface is constructed from the declaration and added to the
\* target
ConfiguredInterface ==
    /\ decl = [order |-> DeclOrder, declared |-> Declared]
    /\ registry = [status |-> "ok", setup |-> "ok", impls |-> impls,
                   fsdb |-> target_setup(impls).fsdb]

\* the part of the state the handlers work on
State == [started |-> started, output |-> output, pidfile |-> pidfile,
          alive |-> alive, launched |-> launched, nextPid |-> nextPid,
          user_path |-> user_path, owner |-> owner, now |-> now]

\* what the environment decides during a request
\*   pre_ok:   the pre-commands exit with 0
\*   cmd_ok:   the main command can be executed (and, for a snapshot,
\*             exits with 0)
\*   gone:     the names for which signalling a process that has already
\*             exited reports "no such process"
\*   stubborn: the names whose process does not exit within the grace
\*             period after the graceful signal
\* (a request meets at most one of the failures: the first one ends it;
\* of gone and stubborn only one is consulted for a process, gone when it
\* has exited and stubborn when it runs, so they are chosen together)
Env(pre_ok, cmd_ok, gone, stubborn) ==
    [pre_ok |-> pre_ok, cmd_ok |-> cmd_ok, gone |-> gone,
     stubborn |-> stubborn]
Envs == { Env(TRUE, TRUE, {}, {}), Env(FALSE, TRUE, {}, {}),
          Env(TRUE, FALSE, {}, {}), Env(TRUE, TRUE, StreamNames, StreamNames) }
ReleaseEnvs == { Env(TRUE, TRUE, h, h) : h \in SUBSET StreamNames }

\* the directory of the calling user, which the daemon hands to the
\* handlers as user_path
UserPath == ("alice" :> "/home/alice") @@ ("bob" :> "/home/bob")

FileNames == { <<p, n, t>> : p \in { UserPath[u] : u \in Users } \cup {None}, n \in Names,
                             t \in Times }

Ev(k, pid, file) == [k |-> k, pid |-> pid, file |-> file]
Result(s, exc, ret, ev) == [s |-> s, exc |-> exc, ret |-> ret, ev |-> ev]

\* ------------------------------------------------- the supervised process
\* commonl.process_terminate(pidfile, wait_to_kill): reads the pid file;
\* without one there is nothing to stop.  A running process is sent the
\* graceful signal and given wait_to_kill to exit; if it is still running
\* then, it is sent the kill signal.  Signalling a process that has
\* already exited may report "no such process" (OSError, ESRCH).  The
\* process is not running afterwards and the pid file is removed on
\* every path.
process_terminate(s, capturer, e) ==
    LET pid == s.pidfile[capturer]
        s1 == [s EXCEPT !.pidfile[capturer] = NoPid, !.alive = @ \ {pid}]
    IN  IF pid = NoPid THEN Result(s, "none", EmptyDict, <<>>)
        ELSE IF pid \in s.alive
        THEN IF capturer \in e.stubborn
             THEN Result(s1, "none", EmptyDict,
                         << Ev("SIGTERM", pid, NoFile),
                            Ev("timeout", pid, NoFile),
                            Ev("SIGKILL", pid, NoFile) >>)
             ELSE Result(s1, "none", EmptyDict,
                         << Ev("SIGTERM", pid, NoFile),
                            Ev("exited", pid, NoFile) >>)
        ELSE IF capturer \in e.gone
        THEN Result(s1, "OSError:ESRCH", EmptyDict, <<>>)
        ELSE Result(s1, "none", EmptyDict, <<>>)

\* target.target_owned_and_locked(who): the caller has to own the target
target_owned_and_locked(s, who) == s.owner = who

\* "e != errno.ESRCH" in generic_stream.stop_and_get: e is the exception
\* instance and errno.ESRCH an integer, they are never equal
exc_ne_ESRCH == TRUE

\* ------------------------------------------------------ generic_stream
\* generic_stream.start: persist the file name, run the pre-commands,
\* launch the command and write its pid to the pid file
generic_stream_start(s, impl, capturer, e) ==
    LET file_name == << s.user_path[impl], capturer, s.now >>
        s1 == [s EXCEPT !.output[capturer] = file_name]
        pid == s.nextPid
        s2 == [s1 EXCEPT !.alive = @ \cup {pid},
                         !.launched = @ @@ (pid :> capturer),
                         !.nextPid = @ + 1,
                         !.pidfile[capturer] = pid]
        ev0 == << Ev("output", NoPid, file_name) >>
    IN  IF ~e.pre_ok
        THEN Result(s1, "CalledProcessError", RetNone,
                    ev0 \o << Ev("pre_command", NoPid, NoFile) >>)
        ELSE IF ~e.cmd_ok
        THEN Result(s1, "OSError:ENOENT", RetNone,
                    ev0 \o << Ev("pre_command", NoPid, NoFile) >>)
        ELSE Result(s2, "none", RetNone,
                    ev0 \o << Ev("pre_command", NoPid, NoFile),
                              Ev("launch", pid, NoFile) >>)

\* generic_stream.stop_and_get not terminating the process
generic_stream_stop_and_get_no_terminate(s, impl, capturer, e) ==
    LET file_name == s.output[capturer]
        s1 == [s EXCEPT !.output[capturer] = NoFile]
    IN  Result(s1, "none", [stream_file |-> file_name], <<>>)

\* generic_stream.stop_and_get working on the name the instance was
\* declared under instead of the name of the request
generic_stream_stop_and_get_by_instance(s, impl, capturer, e) ==
    LET declared == CHOOSE n \in Names : Declared[n] = impl
        file_name == s.output[declared]
        s1 == [s EXCEPT !.output[declared] = NoFile]
        t == process_terminate(s1, declared, e)
    IN  IF t.exc = "none"
        THEN Result(t.s, "none", [stream_file |-> file_name], t.ev)
        ELSE Result(t.s, t.exc, RetNone, t.ev)

\* generic_stream.stop_and_get: read the persisted file name, clear it,
\* terminate the process and return the file name
generic_stream_stop_and_get(s, impl, capturer, e) ==
    LET file_name == s.output[capturer]
        s1 == [s EXCEPT !.output[capturer] = NoFile]
        t == process_terminate(s1, capturer, e)
    IN  IF t.exc = "none"
        THEN Result(t.s, "none", [stream_file |-> file_name], t.ev)
        ELSE IF exc_ne_ESRCH
        THEN Result(t.s, t.exc, RetNone, t.ev)
        ELSE Result(t.s, "none", RetNone, t.ev)

\* ---------------------------------------------------- generic_snapshot
\* generic_snapshot.stop_and_get: run the pre-commands and the command,
\* which writes the snapshot to a freshly named file
generic_snapshot_stop_and_get(s, impl, capturer, e) ==
    LET file_name == << s.user_path[impl], capturer, s.now >>
    IN  IF ~e.pre_ok
        THEN Result(s, "CalledProcessError", RetNone,
                    << Ev("pre_command", NoPid, NoFile) >>)
        ELSE IF ~e.cmd_ok
        THEN Result(s, "CalledProcessError", RetNone,
                    << Ev("pre_command", NoPid, NoFile),
                       Ev("command", NoPid, file_name) >>)
        ELSE Result(s, "none", [stream_file |-> file_name],
                    << Ev("pre_command", NoPid, NoFile),
                       Ev("command", NoPid, file_name) >>)

\* impl.stop_and_get(target, capturer), dispatched on the instance's class
impl_stop_and_get(s, impl, capturer, e) ==
    IF stream[impl] THEN generic_stream_stop_and_get(s, impl, capturer, e)
    ELSE generic_snapshot_stop_and_get(s, impl, capturer, e)

\* ------------------------------------------------------------ interface
\* put_start restarting without stopping the capture that is running
put_start_without_stop(s, who, capturer, upath, e) ==
    LET impl == impls[capturer]
        capturing == s.started[capturer]
        s1 == [s EXCEPT !.user_path[impl] = upath]
        s2 == [s1 EXCEPT !.started[capturer] = "True"]
        s3 == [s1 EXCEPT !.started[capturer] = None]
        r2 == generic_stream_start(s3, impl, capturer, e)
        s4 == [r2.s EXCEPT !.started[capturer] = "True"]
    IN  IF ~target_owned_and_locked(s, who)
        THEN Result(s, "NotOwned", RetNone, <<>>)
        ELSE IF stream[impl] = FALSE
        THEN Result(s, "InvalidOperation", RetNone, <<>>)
        ELSE IF capturing # "True"
        THEN Result(s2, "none", EmptyDict, <<>>)
        ELSE IF r2.exc # "none"
        THEN Result(r2.s, r2.exc, RetNone, r2.ev)
        ELSE Result(s4, "none", EmptyDict, r2.ev)

\* put_start not taking the lock of the target
put_start_without_lock(s, who, capturer, upath, e) ==
    LET impl == impls[capturer]
        capturing == s.started[capturer]
        s1 == [s EXCEPT !.user_path[impl] = upath]
        s2 == [s1 EXCEPT !.started[capturer] = "True"]
        s3 == [s1 EXCEPT !.started[capturer] = None]
        r1 == impl_stop_and_get(s3, impl, capturer, e)
        r2 == generic_stream_start(r1.s, impl, capturer, e)
        s4 == [r2.s EXCEPT !.started[capturer] = "True"]
    IN  IF stream[impl] = FALSE
        THEN Result(s, "InvalidOperation", RetNone, <<>>)
        ELSE IF capturing # "True"
        THEN Result(s2, "none", EmptyDict, <<>>)
        ELSE IF r1.exc # "none"
        THEN Result(r1.s, r1.exc, RetNone, r1.ev)
        ELSE IF r2.exc # "none"
        THEN Result(r2.s, r2.exc, RetNone, r1.ev \o r2.ev)
        ELSE Result(s4, "none", EmptyDict, r1.ev \o r2.ev)

\* put_start not refusing snapshot capturers
put_start_any_mode(s, who, capturer, upath, e) ==
    LET impl == impls[capturer]
        capturing == s.started[capturer]
        s1 == [s EXCEPT !.user_path[impl] = upath]
        s2 == [s1 EXCEPT !.started[capturer] = "True"]
        s3 == [s1 EXCEPT !.started[capturer] = None]
        r1 == impl_stop_and_get(s3, impl, capturer, e)
        r2 == generic_stream_start(r1.s, impl, capturer, e)
        s4 == [r2.s EXCEPT !.started[capturer] = "True"]
    IN  IF ~target_owned_and_locked(s, who)
        THEN Result(s, "NotOwned", RetNone, <<>>)
        ELSE IF capturing # "True"
        THEN Result(s2, "none", EmptyDict, <<>>)
        ELSE IF r1.exc # "none"
        THEN Result(r1.s, r1.exc, RetNone, r1.ev)
        ELSE IF r2.exc # "none"
        THEN Result(r2.s, r2.exc, RetNone, r1.ev \o r2.ev)
        ELSE Result(s4, "none", EmptyDict, r1.ev \o r2.ev)

\* interface.put_start
put_start(s, who, capturer, upath, e) ==
    LET impl == impls[capturer]
        capturing == s.started[capturer]
        s1 == [s EXCEPT !.user_path[impl] = upath]
        s2 == [s1 EXCEPT !.started[capturer] = "True"]
        s3 == [s1 EXCEPT !.started[capturer] = None]
        r1 == impl_stop_and_get(s3, impl, capturer, e)
        r2 == generic_stream_start(r1.s, impl, capturer, e)
        s4 == [r2.s EXCEPT !.started[capturer] = "True"]
    IN  IF ~target_owned_and_locked(s, who)
        THEN Result(s, "NotOwned", RetNone, <<>>)
        ELSE IF stream[impl] = FALSE
        THEN Result(s, "InvalidOperation", RetNone, <<>>)
        ELSE IF capturing # "True"
        THEN Result(s2, "none", EmptyDict, <<>>)
        ELSE IF r1.exc # "none"
        THEN Result(r1.s, r1.exc, RetNone, r1.ev)
        ELSE IF r2.exc # "none"
        THEN Result(r2.s, r2.exc, RetNone, r1.ev \o r2.ev)
        ELSE Result(s4, "none", EmptyDict, r1.ev \o r2.ev)

\* put_stop_and_get leaving the started flag set
put_stop_and_get_keeps_flag(s, who, capturer, upath, e) ==
    LET impl == impls[capturer]
        s1 == [s EXCEPT !.user_path[impl] = upath]
        capturing == s1.started[capturer]
    IN  IF ~target_owned_and_locked(s, who)
        THEN Result(s, "NotOwned", RetNone, <<>>)
        ELSE IF stream[impl] = FALSE
        THEN impl_stop_and_get(s1, impl, capturer, e)
        ELSE IF capturing = "True"
        THEN impl_stop_and_get(s1, impl, capturer, e)
        ELSE Result(s1, "NotCapturing", RetNone, <<>>)

\* put_stop_and_get stopping the capturer before looking at the flag
put_stop_and_get_stops_first(s, who, capturer, upath, e) ==
    LET impl == impls[capturer]
        s1 == [s EXCEPT !.user_path[impl] = upath]
        capturing == s1.started[capturer]
        s2 == [s1 EXCEPT !.started[capturer] = None]
        r == impl_stop_and_get(s2, impl, capturer, e)
    IN  IF ~target_owned_and_locked(s, who)
        THEN Result(s, "NotOwned", RetNone, <<>>)
        ELSE IF stream[impl] = FALSE
        THEN impl_stop_and_get(s1, impl, capturer, e)
        ELSE IF capturing = "True" \/ r.exc # "none"
        THEN r
        ELSE Result(r.s, "NotCapturing", RetNone, r.ev)

\* put_stop_and_get looking at the started flag before the mode
put_stop_and_get_flag_first(s, who, capturer, upath, e) ==
    LET impl == impls[capturer]
        s1 == [s EXCEPT !.user_path[impl] = upath]
        capturing == s1.started[capturer]
        s2 == [s1 EXCEPT !.started[capturer] = None]
    IN  IF ~target_owned_and_locked(s, who)
        THEN Result(s, "NotOwned", RetNone, <<>>)
        ELSE IF capturing = "True"
        THEN impl_stop_and_get(s2, impl, capturer, e)
        ELSE IF stream[impl] = FALSE
        THEN impl_stop_and_get(s1, impl, capturer, e)
        ELSE Result(s1, "NotCapturing", RetNone, <<>>)

\* interface.put_stop_and_get
put_stop_and_get(s, who, capturer, upath, e) ==
    LET impl == impls[capturer]
        s1 == [s EXCEPT !.user_path[impl] = upath]
        capturing == s1.started[capturer]
        s2 == [s1 EXCEPT !.started[capturer] = None]
    IN  IF ~target_owned_and_locked(s, who)
        THEN Result(s, "NotOwned", RetNone, <<>>)
        ELSE IF stream[impl] = FALSE
        THEN impl_stop_and_get(s1, impl, capturer, e)
        ELSE IF capturing = "True"
        THEN impl_stop_and_get(s2, impl, capturer, e)
        ELSE Result(s1, "NotCapturing", RetNone, <<>>)

\* interface.get_list: True/False for a stream capturer, None for a
\* snapshot capturer
get_list(s) ==
    [components |->
        [name \in Names |->
            IF stream[impls[name]]
            THEN IF s.started[name] = "True" THEN "True" ELSE "False"
            ELSE None]]

RECURSIVE release_first(_, _, _, _)
\* the loop of the release hook returning after the first stream capturer
release_first(s, i, e, ev) ==
    IF i > Len(DeclOrder) THEN Result(s, "none", RetNone, ev)
    ELSE LET name == DeclOrder[i]
             impl == impls[name]
             r == impl_stop_and_get(s, impl, name, e)
         IN  IF stream[impl] = TRUE
             THEN Result(r.s, r.exc, RetNone,
                         ev \o << Ev("stop_and_get", NoPid, NoFile) >> \o r.ev)
             ELSE release_first(s, i + 1, e, ev)

RECURSIVE release_from(_, _, _, _)
\* the loop of interface._release_hook from the i-th name on; an
\* exception of impl.stop_and_get leaves the loop
release_from(s, i, e, ev) ==
    IF i > Len(DeclOrder) THEN Result(s, "none", RetNone, ev)
    ELSE LET name == DeclOrder[i]
             impl == impls[name]
             r == impl_stop_and_get(s, impl, name, e)
         IN  IF stream[impl] = TRUE
             THEN IF r.exc # "none"
                  THEN Result(r.s, r.exc, RetNone,
                              ev \o << Ev("stop_and_get", NoPid, NoFile) >>
                                 \o r.ev)
                  ELSE release_from(r.s, i + 1, e,
                              ev \o << Ev("stop_and_get", NoPid, NoFile) >>
                                 \o r.ev)
             ELSE release_from(s, i + 1, e, ev)

\* interface._release_hook
release_hook(s, e) == release_from(s, 1, e, <<>>)

\* -------------------------------------------------------------- threads
\* The daemon serves every request in a thread of its own.  The handlers
\* are cut at the places where they touch what other threads can touch.
MaxThreads == 2
Threads == 1 .. MaxThreads
NoThread == 0

\* two targets; both declare the snapshot instance as "vnc0", the first
\* one the stream instance too
Targets == {"t1", "t2"}
TargetNames == ("t1" :> {"vnc0", "hdmi0"}) @@ ("t2" :> {"vnc0"})

\* who owns which target
TargetOwner == ("t1" :> "alice") @@ ("t2" :> "bob")

\* put_start reading the started flag before it takes the lock
put_start_flag_before_lock(pc, is_stream, capturing) ==
    CASE pc = "call" -> IF is_stream THEN "read_started" ELSE "lock"
      [] pc = "read_started" -> "lock"
      [] pc = "lock" -> IF is_stream THEN "set_user_path" ELSE "unlock"
      [] pc = "set_user_path" ->
            IF capturing = "True" THEN "stop" ELSE "set_started"
      [] pc = "stop" -> "start"
      [] pc = "start" -> "set_started"
      [] pc = "set_started" -> "unlock"
      [] pc = "raise" -> "unlock"
      [] OTHER -> "idle"

\* put_start, from one place to the next; capturing is what the thread
\* read of the started flag; "unlock" is leaving the with block
put_start_pc(pc, is_stream, capturing) ==
    CASE pc = "call" -> "lock"
      [] pc = "lock" -> IF is_stream THEN "read_started" ELSE "unlock"
      [] pc = "read_started" -> "set_user_path"
      [] pc = "set_user_path" ->
            IF capturing = "True" THEN "stop" ELSE "set_started"
      [] pc = "stop" -> "start"
      [] pc = "start" -> "set_started"
      [] pc = "set_started" -> "unlock"
      [] pc = "raise" -> "unlock"
      [] OTHER -> "idle"

\* put_stop_and_get, from one place to the next
put_stop_and_get_pc(pc, is_stream, capturing) ==
    CASE pc = "call" -> "lock"
      [] pc = "lock" -> "set_user_path"
      [] pc = "set_user_path" ->
            IF is_stream THEN "read_started" ELSE "snapshot"
      [] pc = "snapshot" -> "unlock"
      [] pc = "read_started" ->
            IF capturing = "True" THEN "stop" ELSE "unlock"
      [] pc = "stop" -> "unlock"
      [] OTHER -> "idle"

\* a thread that serves no request
IdleThread == [pc |-> "idle", op |-> "none", target |-> "t1",
               name |-> None, who |-> None, user_path |-> None,
               capturing |-> None]

\* a target nobody works on
QuietTarget == [lock |-> NoThread, started |-> None, output |-> NoFile]

\* no thread serves a request
Quiet ==
    /\ thr = [t \in Threads |-> IdleThread]
    /\ tgt = [g \in Targets |-> QuietTarget]

\* where the thread with the record r goes next
next_pc(r) ==
    LET is_stream == stream[impls[r.name]]
    IN  IF r.op = "start"
        THEN put_start_pc(r.pc, is_stream, r.capturing)
        ELSE put_stop_and_get_pc(r.pc, is_stream, r.capturing)

\* the thread goes on as r and leaves its target as g; when the with
\* block is left, by return or by exception, the lock is released and
\* the request is over
Goes(t, r, g) ==
    IF next_pc(r) = "unlock"
    THEN /\ thr' = [thr EXCEPT ![t] = IdleThread]
         /\ tgt' = [tgt EXCEPT ![r.target] = [g EXCEPT !.lock = NoThread]]
    ELSE /\ thr' = [thr EXCEPT ![t] = [r EXCEPT !.pc = next_pc(r)]]
         /\ tgt' = [tgt EXCEPT ![r.target] = g]

\* -------------------------------------------------------------- actions
Idle == [op |-> "none", name |-> None, who |-> None, was |-> None,
         exc |-> "none", ret |-> EmptyDict, ev |-> <<>>]

\* nothing is capturing and nobody owns the target
Serving ==
    /\ started = [n \in Names |-> None]
    /\ output = [n \in Names |-> NoFile]
    /\ pidfile = [n \in Names |-> NoPid]
    /\ alive = {}
    /\ launched = EmptyDict
    /\ nextPid = 1
    /\ user_path = [i \in Instances |-> None]
    /\ owner = None
    /\ now = 0
    /\ last = Idle

Init ==
    /\ Serving
    /\ ConfiguredImpl
    /\ ConfiguredInterface
    /\ Quiet

\* the handler's result becomes the state
Becomes(s) ==
    /\ started' = s.started
    /\ output' = s.output
    /\ pidfile' = s.pidfile
    /\ alive' = s.alive
    /\ launched' = s.launched
    /\ nextPid' = s.nextPid
    /\ user_path' = s.user_path
    /\ now' = s.now
    /\ UNCHANGED <<config, conc>>

\* a client asks to start capturing
Start(who, name, e) ==
    /\ nextPid <= MaxPid
    /\ LET r == put_start(State, who, name, UserPath[who], e)
       IN  /\ Becomes(r.s)
           /\ owner' = owner
           /\ last' = [op |-> "start", name |-> name, who |-> who,
                       was |-> started[name], exc |-> r.exc, ret |-> r.ret,
                       ev |-> r.ev]

\* a client asks to stop capturing and to get the capture
StopAndGet(who, name, e) ==
    LET r == put_stop_and_get(State, who, name, UserPath[who], e)
    IN  /\ Becomes(r.s)
        /\ owner' = owner
        /\ last' = [op |-> "stop_and_get", name |-> name, who |-> who,
                    was |-> started[name], exc |-> r.exc, ret |-> r.ret,
                    ev |-> r.ev]

\* a client asks for the list of capturers
List ==
    /\ last' = [Idle EXCEPT !.op = "list", !.ret = get_list(State).components]
    /\ UNCHANGED <<started, output, pidfile, alive, launched, nextPid,
                   user_path, owner, now>>
    /\ UNCHANGED <<config, conc>>

\* somebody acquires the target
Acquire(who) ==
    /\ owner = None
    /\ owner' = who
    /\ last' = [Idle EXCEPT !.op = "acquire", !.who = who]
    /\ UNCHANGED <<started, output, pidfile, alive, launched, nextPid,
                   user_path, now>>
    /\ UNCHANGED <<config, conc>>

\* the target is released: the release hook of the interface runs; when
\* the hook raises, the release may or may not have gone through
Release(e, through) ==
    /\ owner # None
    /\ LET r == release_hook(State, e)
       IN  /\ Becomes(r.s)
           /\ owner' = IF r.exc = "none" \/ through THEN None ELSE owner
           /\ last' = [Idle EXCEPT !.op = "release", !.who = owner,
                                   !.exc = r.exc, !.ev = r.ev]

\* a child process exits on its own
Exit(pid) ==
    /\ pid \in alive
    /\ alive' = alive \ {pid}
    /\ last' = Idle
    /\ UNCHANGED <<started, output, pidfile, launched, nextPid, user_path,
                   owner, now>>
    /\ UNCHANGED <<config, conc>>

\* a second passes
Tick ==
    /\ now < MaxTime
    /\ now' = now + 1
    /\ last' = Idle
    /\ UNCHANGED <<started, output, pidfile, alive, launched, nextPid,
                   user_path, owner>>
    /\ UNCHANGED <<config, conc>>

\* what the environment can decide during a request of who: a request
\* that is refused at the lock of the target runs no command
EnvsOf(who) ==
    IF target_owned_and_locked(State, who) THEN Envs
    ELSE {Env(TRUE, TRUE, {}, {})}

Next ==
    \/ \E who \in Users, name \in Names :
          \E e \in EnvsOf(who) : Start(who, name, e)
    \/ \E who \in Users, name \in Names :
          \E e \in EnvsOf(who) : StopAndGet(who, name, e)
    \/ List
    \/ \E who \in Owners : Acquire(who)
    \/ \E e \in ReleaseEnvs, through \in BOOLEAN : Release(e, through)
    \/ \E pid \in Pids : Exit(pid)
    \/ Tick

Spec == Init /\ [][Next]_vars

\* ------------------------------------------ constructing an instance
MimeTypes == UNION { [1 .. n -> Chars] : n \in 0 .. MaxLen }

InitMime ==
    /\ Serving
    /\ ConfiguredInterface
    /\ Quiet
    /\ mimetype \in MimeTypes
    /\ made = "none"

\* impl_c.__init__(stream, mimetype)
ImplInit ==
    /\ made = "none"
    /\ made' = impl_c_init(mimetype)
    /\ UNCHANGED <<serving, user_path, last, mimetype, decl, registry, conc>>

NextMime == ImplInit

SpecMime == InitMime /\ [][NextMime]_vars

\* ------------------------------------------ constructing an interface
InitCtor ==
    /\ Serving
    /\ ConfiguredImpl
    /\ Quiet
    /\ decl \in Declarations
    /\ registry = NotConstructed

\* interface(**impls)
Construct ==
    /\ registry.status = "none"
    /\ LET r == interface_init(decl.order, decl.declared, 1, NoImpls)
       IN  registry' =
             IF r.ok THEN [NotConstructed EXCEPT !.status = "ok",
                                                 !.impls = r.impls]
             ELSE [NotConstructed EXCEPT !.status = "AssertionError"]
    /\ UNCHANGED <<serving, user_path, last, mimetype, made, decl, conc>>

\* the interface is added to a target
TargetSetup ==
    /\ registry.status = "ok"
    /\ registry.setup = "none"
    /\ LET r == target_setup(registry.impls)
       IN  registry' = [registry EXCEPT
                          !.setup = IF r.exc = "none" THEN "ok" ELSE r.exc,
                          !.fsdb = r.fsdb]
    /\ UNCHANGED <<serving, user_path, last, mimetype, made, decl, conc>>

\* a client asks the interface for the list of capturers
RegistryList ==
    /\ registry.setup = "ok"
    /\ LET r == registry_get_list(registry.impls,
                                  [n \in DOMAIN registry.impls |-> None])
       IN  last' = [Idle EXCEPT !.op = "list", !.exc = r.exc, !.ret = r.ret]
    /\ UNCHANGED <<serving, user_path, config, conc>>

NextCtor ==
    \/ Construct
    \/ TargetSetup
    \/ RegistryList

SpecCtor == InitCtor /\ [][NextCtor]_vars

\* ------------------------------------------------ concurrent requests
InitConc ==
    /\ Serving
    /\ ConfiguredImpl
    /\ ConfiguredInterface
    /\ Quiet

\* a thread takes a request
Call(t, op, g, name, who) ==
    /\ thr[t].pc = "idle"
    /\ Goes(t, [IdleThread EXCEPT !.pc = "call", !.op = op, !.target = g,
                                  !.name = name, !.who = who,
                                  !.user_path = UserPath[who]],
            tgt[g])
    /\ UNCHANGED <<serving, user_path, last, config>>

\* with target.target_owned_and_locked(who): who does not own the target
\* gets an exception; the owner waits for the lock of the target and
\* takes it
Lock(t) ==
    LET r == thr[t]
    IN  /\ r.pc = "lock"
        /\ IF ~target_owned_and_locked([owner |-> TargetOwner[r.target]],
                                       r.who)
           THEN /\ thr' = [thr EXCEPT ![t] = IdleThread]
                /\ tgt' = tgt
           ELSE /\ tgt[r.target].lock = NoThread
                /\ Goes(t, r, [tgt[r.target] EXCEPT !.lock = t])
        /\ UNCHANGED <<serving, user_path, last, config>>

\* capturing = target.property_get("capturer-%s-started")
ReadStarted(t) ==
    LET r == thr[t]
    IN  /\ r.pc = "read_started"
        /\ Goes(t, [r EXCEPT !.capturing = tgt[r.target].started],
                tgt[r.target])
        /\ UNCHANGED <<serving, user_path, last, config>>

\* impl.user_path = user_path
SetUserPath(t) ==
    LET r == thr[t]
    IN  /\ r.pc = "set_user_path"
        /\ user_path' = [user_path EXCEPT ![impls[r.name]] = r.user_path]
        /\ Goes(t, r, tgt[r.target])
        /\ UNCHANGED <<serving, last, config>>

\* target.property_set("capturer-%s-started", None) and
\* impl.stop_and_get of a stream capturer: the output property is cleared
\* and the process terminated
Stop(t) ==
    LET r == thr[t]
    IN  /\ r.pc = "stop"
        /\ Goes(t, r, [tgt[r.target] EXCEPT !.started = None,
                                            !.output = NoFile])
        /\ UNCHANGED <<serving, user_path, last, config>>

\* target.property_set("capturer-%s-started", "True")
SetStarted(t) ==
    LET r == thr[t]
    IN  /\ r.pc = "set_started"
        /\ Goes(t, r, [tgt[r.target] EXCEPT !.started = "True"])
        /\ UNCHANGED <<serving, user_path, last, config>>

\* file_name = "%s/%s-%s-%s" % (self.user_path, target.id, capturer, time)
\* in generic_stream.start and in generic_snapshot.stop_and_get
file_name(r) == <<user_path[impls[r.name]], r.target, r.name, now>>

\* generic_stream.start: the file name is built, the output property is
\* set, the pre-commands and the command are run; when one fails the
\* exception leaves the handler
Start_(t, ok) ==
    LET r == thr[t]
    IN  /\ r.pc = "start"
        /\ Goes(t, IF ok THEN r ELSE [r EXCEPT !.pc = "raise"],
                [tgt[r.target] EXCEPT !.output = file_name(r)])
        /\ UNCHANGED <<serving, user_path, last, config>>

\* generic_snapshot.stop_and_get: the file name is built and the command
\* writes the file
Snapshot(t) ==
    LET r == thr[t]
    IN  /\ r.pc = "snapshot"
        /\ Goes(t, r, tgt[r.target])
        /\ UNCHANGED <<serving, user_path, last, config>>

NextConc ==
    \/ \E t \in Threads, op \in {"start", "stop_and_get"}, g \in Targets :
          \E name \in TargetNames[g], who \in Users :
              Call(t, op, g, name, who)
    \/ \E t \in Threads : Lock(t)
    \/ \E t \in Threads : ReadStarted(t)
    \/ \E t \in Threads : SetUserPath(t)
    \/ \E t \in Threads : Stop(t)
    \/ \E t \in Threads : SetStarted(t)
    \/ \E t \in Threads, ok \in BOOLEAN : Start_(t, ok)
    \/ \E t \in Threads : Snapshot(t)

SpecConc == InitConc /\ [][NextConc]_vars

\* ---------------------------------------------------------------- claims
\* what get_list reports for a name
Listed(n) == get_list(State).components[n]

\* the last request was op on name n
Was(op, n) == last.op = op /\ last.name = n

\* the exceptions with which a capturer command fails
CommandErrors == {"CalledProcessError", "OSError:ENOENT", "OSError:ESRCH"}

\* the signals a process is sent
Signals == {"SIGTERM", "SIGKILL"}

\* the events of kind k in the last request
Events(k) == { i \in 1 .. Len(last.ev) : last.ev[i].k = k }

\* C1: whenever a stream capturer is marked started, a child process was
\* launched for that capturer name and the pid file holds its pid
C1_StartedHasProcess ==
    \A n \in StreamNames :
        started[n] = "True" =>
            /\ pidfile[n] \in DOMAIN launched
            /\ launched[pidfile[n]] = n

\* C2: list reports a stream capturer as False initially, as True after
\* every start that succeeds and as False after every stop_and_get that
\* succeeds; a request that fails for another reason than a capturer
\* command, and any other step, leaves what list reports as it is; and a
\* stop_and_get of the owner while list reports False fails with
\* NotCapturing
C2_Step(n) ==
    LET call == last'.name = n /\ last'.op \in {"start", "stop_and_get"}
    IN  /\ (call /\ last'.op = "start" /\ last'.exc = "none")
              => Listed(n)' = "True"
        /\ (call /\ last'.op = "stop_and_get" /\ last'.exc = "none")
              => Listed(n)' = "False"
        /\ (call /\ last'.exc \notin CommandErrors \cup {"none"})
              => Listed(n)' = Listed(n)
        /\ ~call => Listed(n)' = Listed(n)
        /\ (call /\ last'.op = "stop_and_get" /\ last'.who = owner
                 /\ Listed(n) = "False")
              => last'.exc = "NotCapturing"

C2_ListFollowsLastSuccess ==
    /\ \A n \in StreamNames : Listed(n) = "False"
    /\ [][\A n \in StreamNames : C2_Step(n)]_vars

C2_Witness ==
    /\ last.op = "stop_and_get" /\ last.name \in StreamNames
    /\ last.exc = "none" /\ last.was = "True"
    /\ Listed(last.name) = "False"

\* C3: a stop_and_get of a stream capturer that succeeds returns only
\* stream_file, and its value is the file name found persisted in the
\* output property, which is a file name and not None
C3_StopReturnsPersistedFile ==
    [][\A n \in StreamNames :
          (last'.op = "stop_and_get" /\ last'.name = n /\ last'.exc = "none")
              => /\ DOMAIN last'.ret = {"stream_file"}
                 /\ last'.ret.stream_file = output[n]
                 /\ output[n] \in FileNames]_vars

\* C4: a stop_and_get of the owner on a stream capturer that is not marked
\* started fails with NotCapturing, changes no property, no pid file and
\* no process, and neither launches nor signals anything
C4_NotCapturingNoEffect ==
    [][\A n \in StreamNames :
          (last'.op = "stop_and_get" /\ last'.name = n /\ last'.who = owner
               /\ started[n] # "True")
              => /\ last'.exc = "NotCapturing"
                 /\ last'.ev = <<>>
                 /\ UNCHANGED <<started, output, pidfile, alive, launched,
                                nextPid>>]_vars

C4_Witness ==
    /\ last.op = "stop_and_get" /\ last.exc = "NotCapturing"
    /\ output[last.name] # NoFile
    /\ alive # {}

\* C5: when a start on a stream capturer that is marked started returns,
\* the capturer is marked started, the pid file names a process launched
\* by this request that is running, no process launched earlier for the
\* name is running, and whatever was signalled was signalled before the
\* launch; a running process of the previous session was signalled
C5_RestartIsFresh ==
    [][\A n \in StreamNames :
          (last'.op = "start" /\ last'.name = n /\ last'.exc = "none"
               /\ started[n] = "True")
              => /\ started'[n] = "True"
                 /\ pidfile'[n] \notin DOMAIN launched
                 /\ pidfile'[n] \in DOMAIN launched'
                 /\ launched'[pidfile'[n]] = n
                 /\ pidfile'[n] \in alive'
                 /\ \A p \in DOMAIN launched : launched[p] = n => p \notin alive'
                 /\ \A i, j \in 1 .. Len(last'.ev) :
                       (last'.ev[i].k \in Signals /\ last'.ev[j].k = "launch")
                           => i < j
                 /\ pidfile[n] \in alive =>
                       \E i \in 1 .. Len(last'.ev) :
                           last'.ev[i] = Ev("SIGTERM", pidfile[n], NoFile)]_vars

C5_Witness ==
    /\ last.op = "start" /\ last.exc = "none" /\ last.was = "True"
    /\ Events("SIGTERM") # {}
    /\ Events("launch") # {}

\* C6: a start of the owner on a stream capturer that is marked started
\* fails only when launching the new capture fails (a pre-command or the
\* command), never because of the session that was left behind
C6_DanglingNeverFailsStart ==
    \A n \in StreamNames :
        (Was("start", n) /\ last.was = "True" /\ last.exc # "NotOwned")
            => last.exc \in {"none", "CalledProcessError", "OSError:ENOENT"}

\* C7: when the release hook has returned, no child process launched for
\* a capturer of the target is running and no pid file is left
C7_ReleaseLeavesNoProcess ==
    (last.op = "release" /\ last.exc = "none")
        => /\ \A p \in DOMAIN launched : p \notin alive
           /\ \A n \in StreamNames : pidfile[n] = NoPid

C7_Witness ==
    /\ last.op = "release" /\ last.exc = "none"
    /\ Cardinality(Events("SIGTERM")) = Cardinality(StreamNames)

\* C8: the release hook never raises, and it performs the forced
\* stop_and_get of every stream capturer of the target
C8_ReleaseNeverRaises ==
    last.op = "release"
        => /\ last.exc = "none"
           /\ Cardinality(Events("stop_and_get")) = Cardinality(StreamNames)

\* C9: a start or stop_and_get of somebody who does not own the target
\* fails with the error of the lock, changes no property, no pid file, no
\* process and no instance, and neither launches, signals nor runs
\* anything
C9_NotOwnedNoEffect ==
    [][(last'.op \in {"start", "stop_and_get"} /\ last'.who # owner)
          => /\ last'.exc = "NotOwned"
             /\ last'.ev = <<>>
             /\ UNCHANGED <<started, output, pidfile, alive, launched,
                            nextPid, user_path>>]_vars

C9_Witness ==
    /\ last.op \in {"start", "stop_and_get"} /\ last.exc = "NotOwned"
    /\ owner # None
    /\ last.name \in StreamNames /\ pidfile[last.name] \in alive

\* C10: a start of the owner on a snapshot capturer fails with
\* InvalidOperation and changes no property, no pid file and no process;
\* a snapshot capturer is never marked started and list reports None
\* for it
C10_SnapshotNeverStarted ==
    /\ [](\A n \in SnapshotNames : started[n] = None /\ Listed(n) = None)
    /\ [][\A n \in SnapshotNames :
            (last'.op = "start" /\ last'.name = n /\ last'.who = owner)
                => /\ last'.exc = "InvalidOperation"
                   /\ last'.ev = <<>>
                   /\ UNCHANGED <<started, output, pidfile, alive, launched,
                                  nextPid>>]_vars

C10_Witness ==
    /\ last.op = "start" /\ last.exc = "InvalidOperation"
    /\ last.name \in SnapshotNames
    /\ \E n \in StreamNames : started[n] = "True"

\* C11: a stop_and_get of the owner on a snapshot capturer comes out the
\* same whatever the started flags are and leaves them as they are; it
\* fails only when a capturer command fails, and it changes no property,
\* no pid file and no process, so that list reports the same afterwards
C11_FlagsIgnored(n) ==
    \A who \in Users, e \in Envs, f \in [Names -> {"True", None}] :
        LET r0 == put_stop_and_get(State, who, n, UserPath[who], e)
            r1 == put_stop_and_get([State EXCEPT !.started = f], who, n,
                                   UserPath[who], e)
        IN  /\ r1.exc = r0.exc
            /\ r1.ret = r0.ret
            /\ r1.s.started = f

C11_SnapshotStopIgnoresFlags ==
    /\ [](\A n \in SnapshotNames : C11_FlagsIgnored(n))
    /\ [][\A n \in SnapshotNames :
            (last'.op = "stop_and_get" /\ last'.name = n /\ last'.who = owner)
                => /\ last'.exc \in {"none", "CalledProcessError"}
                   /\ UNCHANGED <<started, output, pidfile, alive, launched,
                                  nextPid>>
                   /\ \A m \in Names : Listed(m)' = Listed(m)]_vars

C11_Witness ==
    /\ last.op = "stop_and_get" /\ last.name \in SnapshotNames
    /\ last.exc = "none" /\ DOMAIN last.ret = {"stream_file"}
    /\ \E n \in StreamNames : started[n] = "True" /\ pidfile[n] \in alive

\* C12: a stop_and_get of the owner on a stream capturer that is marked
\* started and whose process has already exited does not raise, clears
\* the started flag and the output property and returns the file name of
\* the session
C12_GoneProcessIsSuccess ==
    [][\A n \in StreamNames :
          (last'.op = "stop_and_get" /\ last'.name = n /\ last'.who = owner
               /\ started[n] = "True"
               /\ pidfile[n] # NoPid /\ pidfile[n] \notin alive)
              => /\ last'.exc = "none"
                 /\ DOMAIN last'.ret = {"stream_file"}
                 /\ last'.ret.stream_file = output[n]
                 /\ started'[n] = None
                 /\ output'[n] = NoFile]_vars

\* C13: after a start or stop_and_get on a stream capturer that failed
\* with a pre-command, a launch or a termination error or with
\* NotCapturing, the started flag and the output property are unset
C13_FailureLeavesClean ==
    \A n \in StreamNames :
        (last.op \in {"start", "stop_and_get"} /\ last.name = n
            /\ last.exc \in CommandErrors \cup {"NotCapturing"})
            => /\ started[n] = None
               /\ output[n] = NoFile

\* C14: the process of a stream capturer is sent the graceful signal
\* first; the kill signal is sent only directly after the grace period
\* has run out with the process still running, once, and not when the
\* process exited in time; and a stop_and_get of the owner on a capturer
\* marked started leaves no pid file, whether the process exited, was
\* killed or was already gone
C14_Escalation(ev) ==
    \A j \in 1 .. Len(ev) :
        /\ ev[j].k = "SIGKILL" =>
              /\ j > 2
              /\ ev[j - 1] = Ev("timeout", ev[j].pid, NoFile)
              /\ ev[j - 2] = Ev("SIGTERM", ev[j].pid, NoFile)
              /\ \A i \in 1 .. Len(ev) :
                    (ev[i].k = "SIGKILL" /\ ev[i].pid = ev[j].pid) => i = j
        /\ ev[j].k = "timeout" =>
              /\ j < Len(ev)
              /\ ev[j + 1] = Ev("SIGKILL", ev[j].pid, NoFile)
        /\ ev[j].k = "exited" =>
              /\ j > 1
              /\ ev[j - 1] = Ev("SIGTERM", ev[j].pid, NoFile)
              /\ \A i \in 1 .. Len(ev) :
                    ev[i].k = "SIGKILL" => ev[i].pid # ev[j].pid
        /\ ev[j].k = "SIGTERM" =>
              /\ j < Len(ev)
              /\ ev[j + 1].k \in {"timeout", "exited"}
              /\ ev[j + 1].pid = ev[j].pid

C14_GracefulThenForced ==
    /\ [](C14_Escalation(last.ev))
    /\ [][\A n \in StreamNames :
            (last'.op = "stop_and_get" /\ last'.name = n /\ last'.who = owner
                 /\ started[n] = "True")
                => /\ pidfile'[n] = NoPid
                   /\ pidfile[n] \notin alive'
                   /\ pidfile[n] \in alive =>
                         \E i \in 1 .. Len(last'.ev) :
                             last'.ev[i] = Ev("SIGTERM", pidfile[n], NoFile)]_vars

C14_Witness ==
    /\ last.op = "stop_and_get" /\ last.exc = "none"
    /\ Events("SIGKILL") # {}
    /\ pidfile[last.name] = NoPid

\* the running processes that were launched for a name
Running(n) == { p \in alive : launched[p] = n }

\* C19: a start or stop_and_get on a name leaves the started flag, the
\* output property, the pid file and the running process of every other
\* name as they are, synonyms of the name included
C19_OtherNamesUntouched ==
    [][\A a \in Names, b \in Names :
          (last'.op \in {"start", "stop_and_get"} /\ last'.name = a /\ b # a)
              => /\ started'[b] = started[b]
                 /\ output'[b] = output[b]
                 /\ pidfile'[b] = pidfile[b]
                 /\ Running(b)' = Running(b)]_vars

C19_Witness ==
    /\ last.op = "stop_and_get" /\ last.exc = "none"
    /\ Events("SIGTERM") # {}
    /\ \E b \in StreamNames :
          /\ b # last.name
          /\ impls[b] = impls[last.name]
          /\ started[b] = "True"
          /\ output[b] # NoFile
          /\ pidfile[b] \in alive

\* the characters lo .. hi of s are one token: word characters around
\* one slash
IsToken(s, lo, hi) ==
    \E p \in lo + 1 .. hi - 1 :
        /\ s[p] = "/"
        /\ \A k \in lo .. hi : k # p => s[k] = "w"

\* s is one or more tokens separated by commas, and nothing else
WellFormed(s) ==
    LET cuts == { i \in 1 .. Len(s) : s[i] = "," } \cup {0, Len(s) + 1}
    IN  \A a, b \in cuts :
            (a < b /\ ~ \E c \in cuts : a < c /\ c < b)
                => IsToken(s, a + 1, b - 1)

\* C17: constructing a capturer accepts a media type if and only if it
\* is one or more comma-separated tokens word/word with nothing else in
\* the string.
C17_AcceptsExactlyTokenLists ==
    made # "none" => (made = "ok" <=> WellFormed(mimetype))

\* what the list request gives on the constructed interface
RegistryListed ==
    registry_get_list(registry.impls, [n \in DOMAIN registry.impls |-> None])

\* C15: in every accepted declaration an alias maps to the same
\* instance as the name it points to, every entry of the registry is an
\* instance and never a bare name, and list has an entry for every
\* declared name.
C15_AliasSharesInstance ==
    registry.status = "ok" =>
        /\ \A n \in DOMAIN decl.declared :
              is_str(decl.declared[n])
                  => registry.impls[n] = registry.impls[decl.declared[n]]
        /\ \A n \in DOMAIN registry.impls : is_impl_c(registry.impls[n])
        /\ RegistryListed.exc = "none"
        /\ DOMAIN RegistryListed.ret = DOMAIN decl.declared

\* the declaration has an alias of an undeclared name or a value that is
\* neither an instance nor a name
Malformed(d) ==
    \E n \in DOMAIN d.declared :
        \/ is_str(d.declared[n]) /\ d.declared[n] \notin DOMAIN d.declared
        \/ ~is_str(d.declared[n]) /\ ~is_impl_c(d.declared[n])

\* C16: a malformed declaration makes construction fail, and nothing
\* that is done with a constructed interface fails because of an entry of
\* the registry.
C16_ErrorsAtConstruction ==
    /\ (registry.status # "none" /\ Malformed(decl))
          => registry.status = "AssertionError"
    /\ registry.setup # "AttributeError"
    /\ registry.status = "ok" =>
          /\ RegistryListed.exc # "AttributeError"
          /\ \A n \in DOMAIN registry.impls :
                registry_impl_stream(registry.impls, n) # "AttributeError"

\* the places of a handler inside the with block
InsideLock == {"read_started", "set_user_path", "set_started", "stop",
               "start", "snapshot"}

\* a started flag, an output property or a process of target g changes
\* only in a step of the thread that holds the lock of g
C18_Step ==
    \A g \in Targets :
        (\/ tgt'[g].started # tgt[g].started
         \/ tgt'[g].output # tgt[g].output)
            => /\ tgt[g].lock # NoThread
               /\ thr[tgt[g].lock].target = g
               /\ thr[tgt[g].lock].pc \in InsideLock
               /\ thr'[tgt[g].lock] # thr[tgt[g].lock]
               /\ \A t \in Threads \ {tgt[g].lock} : thr'[t] = thr[t]

\* C18: with clients starting and stopping concurrently, a thread that
\* is at a read or write of a started flag or output property, or at a
\* launch or termination, holds the lock of its target, so at most one
\* thread per target is inside its transition; and these properties and
\* processes change only in the steps of the holder.
C18_OneTransitionPerTarget ==
    /\ [](\A t \in Threads :
             thr[t].pc \in InsideLock => tgt[thr[t].target].lock = t)
    /\ [][C18_Step]_vars

\* one thread is about to start the process while another one waits for
\* the lock of the same target
C18_Witness ==
    \E t, u \in Threads :
        /\ t # u
        /\ thr[t].target = thr[u].target
        /\ thr[t].pc = "start"
        /\ thr[u].pc = "lock"
        /\ thr[u].who = TargetOwner[thr[u].target]

\* C20: the output file of a request is placed under the user_path that
\* came with that request, also when requests on targets that share an
\* instance interleave.
C20_FileUnderOwnUserPath ==
    \A t \in Threads :
        thr[t].pc \in {"start", "snapshot"}
            => file_name(thr[t])[1] = thr[t].user_path

\* C21: between requests, a stream capturer is marked started if and only
\* if its output property is set.
C21_StartedIffOutput ==
    \A n \in StreamNames : started[n] = "True" <=> output[n] # NoFile

\* C22: after any sequence of start, stop_and_get, list and release, also
\* failing ones, at most one process launched for a capturer name is
\* alive, and the pid file of the name holds the pid of the one that is.
C22_OneProcessPerName ==
    \A n \in Names :
        /\ Cardinality(Running(n)) <= 1
        /\ \A p \in Running(n) : pidfile[n] = p

\* a capturer was restarted: its first process is gone, its second one
\* runs
C22_Witness ==
    \E n \in StreamNames :
        /\ Was("start", n) /\ last.was = "True" /\ last.exc = "none"
        /\ Running(n) # {}
        /\ \E p \in DOMAIN launched : launched[p] = n /\ p \notin alive

\* C23: when the release hook has returned, no stream capturer of the
\* target is marked started and list reports False for every one of them.
C23_ReleaseClearsStarted ==
    (last.op = "release" /\ last.exc = "none")
        => \A n \in StreamNames :
              started[n] # "True" /\ Listed(n) = "False"

====
